---- MODULE Spec2Model ----
(***************************************************************************)
(* The MultimodalAnalyzer chat component of VeriWise: the session store,   *)
(* the staged input and the submission pipeline, as React state mutated by *)
(* event handlers and by the continuation of each handleSubmit call.       *)
(*                                                                         *)
(* Two revisions of the component are modelled side by side:               *)
(*   "revised" : src/unnamed/part_002 (textarea with Enter-to-send,        *)
(*               response.ok check, data.results.summary log line)         *)
(*   "chat"    : src/frontend/app/chat/page.jsx (send button only, no      *)
(*               response.ok check)                                        *)
(*   "home"    : src/frontend/app/page.js (as "chat", with the session     *)
(*               collection loaded from and saved to localStorage)         *)
(* The variable page says which revision is mounted.  attempt notes the    *)
(* latest event when it was an attempt to send ("button", "enter"), a      *)
(* reload of the page ("reload"), a switch to an id that no session has    *)
(* ("miss") or the render of an Assistant message ("render"), and is       *)
(* "none" after every other event.  stored is the value under the          *)
(* localStorage key, objectURLs the object URLs created and not revoked.   *)
(* messageData is a payload handed to formatResult and sections what it    *)
(* returned for it.                                                        *)
(***************************************************************************)
EXTENDS Integers, Sequences, FiniteSets, TLC

\* ---------------------------------------------------------------- bounds
MaxSubs == 1        \* submissions accepted during a run of Spec, SpecChat, SpecInput
MaxChats == 2       \* sessions created during a run of Spec, SpecChat
MaxRaceSubs == 2    \* submissions accepted during a run of SpecRace
MaxRaceChats == 2   \* sessions created during a run of SpecRace
MaxStoreChats == 3  \* sessions created during a run of SpecStore

\* ------------------------------------------------------------- constants
Null == "null"
NullText == << >>            \* `text || null`: a stored text is non-empty or null
DefaultTitle == <<"N", "e", "w", " ", "A", "n", "a", "l", "y", "s", "i", "s">>
Ellipsis == <<".", ".", ".">>
TitleLen == 30
Pages == {"revised", "chat"}

\* inputs offered to the handlers
Texts == {<< >>, <<" ">>, <<"h", "i">>}
ImageFiles == {"a.png"}
VideoFiles == {"a.mp4"}

\* a text longer than the part of it a title keeps
LongText == [i \in 1..(TitleLen + 1) |-> "a"]
TitleTexts == Texts \cup {LongText}

\* bodies a response may carry; json = FALSE is a body response.json() rejects
EmptyObject == << >>
AnalysisObject == [results |-> [summary |-> "ok"]]
Bodies == {[json |-> FALSE, value |-> EmptyObject],
           [json |-> TRUE, value |-> EmptyObject],
           [json |-> TRUE, value |-> AnalysisObject]}
Statuses == {200, 500}
Outcomes == {[kind |-> "reject", status |-> 0, body |-> [json |-> FALSE, value |-> EmptyObject]]}
            \cup {[kind |-> "response", status |-> s, body |-> b] : s \in Statuses, b \in Bodies}

VARIABLES page, chats, currentChatId, messages, text, image, video, isLoading,
          inflight, now, nsub, nchat, attempt, stored, objectURLs, messageData, sections

vars == <<page, chats, currentChatId, messages, text, image, video, isLoading,
          inflight, now, nsub, nchat, attempt, stored, objectURLs, messageData, sections>>

\* the payload handed to formatResult and the sections it returned
render == <<messageData, sections>>

\* ------------------------------------------------------------ JS helpers
\* truthiness of a JS string: the empty string is the only falsy one
Truthy(s) == s # << >>

IsSpace(c) == c = " "

RECURSIVE TrimStart(_)
TrimStart(s) == IF s # << >> /\ IsSpace(Head(s)) THEN TrimStart(Tail(s)) ELSE s

RECURSIVE TrimEnd(_)
TrimEnd(s) == IF s # << >> /\ IsSpace(s[Len(s)]) THEN TrimEnd(SubSeq(s, 1, Len(s) - 1)) ELSE s

Trim(s) == TrimEnd(TrimStart(s))

Substring(s, from, to) == SubSeq(s, from + 1, IF to < Len(s) THEN to ELSE Len(s))

\* the readings Date.now() may return to a handler: the latest reading again
\* (same millisecond) or a later one; now = 0 before the first reading
ClockReadings == IF now = 0 THEN {1} ELSE {now, now + 1}

ResponseOk(status) == status >= 200 /\ status <= 299

HasKey(obj, k) == k \in DOMAIN obj

Stringify(v) ==
    IF v = EmptyObject THEN "{}"
    ELSE IF HasKey(v, "error") THEN "{\"error\":\"" \o v.error \o "\"}"
    ELSE "{\"results\":{\"summary\":\"" \o v.results.summary \o "\"}}"

ChatIds == {chats[i].id : i \in 1..Len(chats)}

\* ids switchChat may be called with: those issued up to now, of sessions in
\* the collection or deleted, and "0", which no session ever had
IssuedIds == {ToString(t) : t \in 0..now}

\* chats.find(c => c.id === chatId): the first match; used where one exists
Find(chatId) ==
    chats[CHOOSE i \in 1..Len(chats) :
              /\ chats[i].id = chatId
              /\ \A j \in 1..(i - 1) : chats[j].id # chatId]

Filter(cs, chatId) == SelectSeq(cs, LAMBDA c : c.id # chatId)

\* mutant: the text is not cut
TitleFrom_Whole(t) == t \o Ellipsis

TitleFrom(t) == Substring(t, 0, TitleLen) \o Ellipsis

\* ------------------------------------------------------ result normalizer
\* JS values handed to formatResult, tagged with their type.  A number is
\* kept as a count of ten-thousandths (0.82 is 8200), an object as the
\* function from its keys to their values.
Scale == 10000
Undefined == [t |-> "undefined"]
JNull == [t |-> "null"]
JStr(str) == [t |-> "string", v |-> str]
JNum(n) == [t |-> "number", v |-> n]
JBool(b) == [t |-> "boolean", v |-> b]
JObj(f) == [t |-> "object", v |-> f]
JArr(q) == [t |-> "array", v |-> q]

\* obj.k: undefined for a missing key and for a value that has no properties
Get(j, k) == IF j.t = "object" /\ k \in DOMAIN j.v THEN j.v[k] ELSE Undefined

\* truthiness of a JS value
JsTruthy(j) ==
    CASE j.t = "undefined" -> FALSE
      [] j.t = "null" -> FALSE
      [] j.t = "string" -> j.v # ""
      [] j.t = "number" -> j.v # 0
      [] j.t = "boolean" -> j.v
      [] j.t = "object" -> TRUE
      [] j.t = "array" -> TRUE

\* a || b
Or(a, b) == IF JsTruthy(a) THEN a ELSE b

\* Array.isArray(j)
IsArray(j) == j.t = "array"

\* Object.keys(j).length for an object
KeysLength(j) == Cardinality(DOMAIN j.v)

\* a whole number as JS prints it
NumberText(n) == CASE n % Scale = 0 -> ToString(n \div Scale)

\* what React shows for {j} inside an element: a string or a number as text,
\* nothing for undefined, null and booleans
ChildText(j) ==
    CASE j.t = "string" -> j.v
      [] j.t = "number" -> NumberText(j.v)
      [] j.t \in {"undefined", "null", "boolean"} -> ""

\* mutant: the second decimal is cut off instead of rounded
Percent_Truncates(j) ==
    CASE j.t = "number" ->
            LET tenths == j.v \div 10
            IN ToString(tenths \div 10) \o "." \o ToString(tenths % 10)
      [] j.t = "null" -> "0.0"
      [] j.t = "undefined" -> "NaN"

\* (j * 100).toFixed(1): the product rounded to one decimal; undefined * 100
\* is NaN and null * 100 is 0
Percent(j) ==
    CASE j.t = "number" ->
            LET tenths == (j.v + 5) \div 10
            IN ToString(tenths \div 10) \o "." \o ToString(tenths % 10)
      [] j.t = "null" -> "0.0"
      [] j.t = "undefined" -> "NaN"

\* JSON.stringify(j) for strings, whole numbers, null and objects of at most
\* one key
RECURSIVE JsonText(_)
JsonText(j) ==
    CASE j.t = "string" -> "\"" \o j.v \o "\""
      [] j.t = "number" -> NumberText(j.v)
      [] j.t = "null" -> "null"
      [] j.t = "object" /\ DOMAIN j.v = {} -> "{}"
      [] j.t = "object" /\ Cardinality(DOMAIN j.v) = 1 ->
            LET k == CHOOSE x \in DOMAIN j.v : TRUE
            IN "{\"" \o k \o "\":" \o JsonText(j.v[k]) \o "}"

\* a section: its key, the text of its heading and its lines; a line is the
\* list of the children of its element, literal text and {expressions}
Section(key, title, lines) == [key |-> key, title |-> title, lines |-> lines]

When(cond, lines) == IF cond THEN lines ELSE << >>

\* mutant: the top-level summary is preferred
SummarySection_TopFirst(d, results) ==
    LET summaryText == Or(Get(d, "summary"), Get(results, "summary"))
    IN When(JsTruthy(summaryText),
            <<Section("summary", "Summary", <<<<ChildText(summaryText)>>>>)>>)

SummarySection(d, results) ==
    LET summaryText == Or(Get(results, "summary"), Get(d, "summary"))
    IN When(JsTruthy(summaryText),
            <<Section("summary", "Summary", <<<<ChildText(summaryText)>>>>)>>)

CombinedSection(results) ==
    LET combined == Get(results, "combined")
    IN When(JsTruthy(combined),
            <<Section("combined", "Combined Analysis",
                <<<<ChildText(Get(combined, "short"))>>>>
                \o When(Get(combined, "confidence_score") # Undefined,
                        <<<<"Confidence: ", Percent(Get(combined, "confidence_score")),
                            "%">>>>))>>)

\* mutant: the bias section is left out when there is a combined analysis
BiasSection_UnlessCombined(results) ==
    LET bias == Get(results, "bias")
    IN When(JsTruthy(bias) /\ ~JsTruthy(Get(results, "combined")),
            <<Section("bias", "Bias Analysis",
                <<<<"Label: ", ChildText(Get(bias, "label"))>>,
                  <<"Score: ", Percent(Get(bias, "score")), "%">>>>)>>)

BiasSection(results) ==
    LET bias == Get(results, "bias")
    IN When(JsTruthy(bias),
            <<Section("bias", "Bias Analysis",
                <<<<"Label: ", ChildText(Get(bias, "label"))>>,
                  <<"Score: ", Percent(Get(bias, "score")), "%">>>>)>>)

AiImageSection(results) ==
    LET ai_image == Get(results, "ai_image")
    IN When(JsTruthy(ai_image),
            <<Section("ai_image", "AI Image Detection",
                <<<<"Prediction: ", ChildText(Get(ai_image, "predicted_class"))>>,
                  <<"Confidence: ", Percent(Get(ai_image, "confidence")), "%">>>>)>>)

ManipulatedSection(results) ==
    LET manipulated == Get(results, "manipulated")
    IN When(JsTruthy(manipulated),
            <<Section("manipulated", "Manipulation Detection",
                <<<<"Prediction: ", ChildText(Get(manipulated, "prediction"))>>,
                  <<"Confidence: ", Percent(Get(manipulated, "confidence")), "%">>>>
                \o When(Get(manipulated, "is_manipulated") # Undefined,
                        <<<<"Is Manipulated: ",
                            IF JsTruthy(Get(manipulated, "is_manipulated"))
                            THEN "Yes" ELSE "No">>>>)
                \o When(JsTruthy(Get(manipulated, "summary")),
                        <<<<ChildText(Get(manipulated, "summary"))>>>>))>>)

\* the lines of the Audio Detection block
AudioLines(audio_detection) ==
    [idx \in 1..Len(audio_detection.v) |->
        <<ChildText(Get(audio_detection.v[idx], "label")), ": ",
          Percent(Get(audio_detection.v[idx], "score")), "%">>]

\* mutant: the last of the three keys wins
VideoSection_LastWins(results) ==
    LET v == Or(Or(Get(results, "video_result"), Get(results, "video_analysis")),
                Get(results, "video"))
    IN When(JsTruthy(v),
            <<Section("video", "Video Analysis",
                When(JsTruthy(Get(v, "overall_verdict")),
                     <<<<"Verdict: ", ChildText(Get(Get(v, "overall_verdict"), "verdict"))>>,
                       <<"Risk Level: ",
                         ChildText(Get(Get(v, "overall_verdict"), "risk_level"))>>>>)
                \o When(JsTruthy(Get(v, "visual_detection")),
                        <<<<"Visual Detection:">>,
                          <<"Overall: ",
                            ChildText(Get(Get(v, "visual_detection"), "overall_prediction")),
                            " (",
                            Percent(Get(Get(v, "visual_detection"), "overall_confidence")),
                            "%)">>>>)
                \o When(IsArray(Get(v, "audio_detection")),
                        <<<<"Audio Detection:">>>> \o AudioLines(Get(v, "audio_detection"))))>>)

\* mutant: the risk level is left out of the verdict block
VideoSection_NoRiskLevel(results) ==
    LET v == Or(Or(Get(results, "video"), Get(results, "video_analysis")),
                Get(results, "video_result"))
    IN When(JsTruthy(v),
            <<Section("video", "Video Analysis",
                When(JsTruthy(Get(v, "overall_verdict")),
                     <<<<"Verdict: ", ChildText(Get(Get(v, "overall_verdict"), "verdict"))>>>>)
                \o When(JsTruthy(Get(v, "visual_detection")),
                        <<<<"Visual Detection:">>,
                          <<"Overall: ",
                            ChildText(Get(Get(v, "visual_detection"), "overall_prediction")),
                            " (",
                            Percent(Get(Get(v, "visual_detection"), "overall_confidence")),
                            "%)">>>>)
                \o When(IsArray(Get(v, "audio_detection")),
                        <<<<"Audio Detection:">>>> \o AudioLines(Get(v, "audio_detection"))))>>)

\* the Video Analysis section, for the first of results.video,
\* results.video_analysis and results.video_result that is truthy
VideoSection(results) ==
    LET v == Or(Or(Get(results, "video"), Get(results, "video_analysis")),
                Get(results, "video_result"))
    IN When(JsTruthy(v),
            <<Section("video", "Video Analysis",
                When(JsTruthy(Get(v, "overall_verdict")),
                     <<<<"Verdict: ", ChildText(Get(Get(v, "overall_verdict"), "verdict"))>>,
                       <<"Risk Level: ",
                         ChildText(Get(Get(v, "overall_verdict"), "risk_level"))>>>>)
                \o When(JsTruthy(Get(v, "visual_detection")),
                        <<<<"Visual Detection:">>,
                          <<"Overall: ",
                            ChildText(Get(Get(v, "visual_detection"), "overall_prediction")),
                            " (",
                            Percent(Get(Get(v, "visual_detection"), "overall_confidence")),
                            "%)">>>>)
                \o When(IsArray(Get(v, "audio_detection")),
                        <<<<"Audio Detection:">>>> \o AudioLines(Get(v, "audio_detection"))))>>)

\* the lines of the Claim Details block
ClaimLines(claim_detail) ==
    [i \in 1..Len(claim_detail.v) |-> <<JsonText(claim_detail.v[i])>>]

\* mutant: the fields of factcheck are not counted
FactcheckSection_AnyObject(results) ==
    LET factcheck == Get(results, "factcheck")
        summary == Get(factcheck, "summary")
        claim_detail == Get(factcheck, "claim_detail")
        raw_text == Get(factcheck, "raw_text")
        token_count == Get(factcheck, "token_count")
    IN When(JsTruthy(factcheck),
            <<Section("factcheck", "Fact Check",
                When(JsTruthy(raw_text), <<<<"Text: \"", ChildText(raw_text), "\"">>>>)
                \o When(JsTruthy(summary),
                        <<<<IF summary.t \in {"object", "array"}
                            THEN JsonText(summary) ELSE ChildText(summary)>>>>)
                \o When(IsArray(claim_detail),
                        <<<<"Claim Details:">>>> \o ClaimLines(claim_detail))
                \o When(JsTruthy(token_count),
                        <<<<"Token Count: ", ChildText(token_count)>>>>))>>)

FactcheckSection(results) ==
    LET factcheck == Get(results, "factcheck")
        summary == Get(factcheck, "summary")
        claim_detail == Get(factcheck, "claim_detail")
        raw_text == Get(factcheck, "raw_text")
        token_count == Get(factcheck, "token_count")
    IN When(JsTruthy(factcheck) /\ KeysLength(factcheck) > 0,
            <<Section("factcheck", "Fact Check",
                When(JsTruthy(raw_text), <<<<"Text: \"", ChildText(raw_text), "\"">>>>)
                \o When(JsTruthy(summary),
                        <<<<IF summary.t \in {"object", "array"}
                            THEN JsonText(summary) ELSE ChildText(summary)>>>>)
                \o When(IsArray(claim_detail),
                        <<<<"Claim Details:">>>> \o ClaimLines(claim_detail))
                \o When(JsTruthy(token_count),
                        <<<<"Token Count: ", ChildText(token_count)>>>>))>>)

FallbackSection ==
    Section("fallback", "No Results", <<<<"No recognizable analysis data found.">>>>)

\* mutant: the fallback is pushed whatever was found
formatResult_AlwaysFallback(d) ==
    IF ~JsTruthy(d) THEN << >>
    ELSE LET results == Or(Get(d, "results"), JObj(<< >>))
             found == SummarySection(d, results) \o CombinedSection(results)
                          \o BiasSection(results) \o AiImageSection(results)
                          \o ManipulatedSection(results) \o VideoSection(results)
                          \o FactcheckSection(results)
         IN found \o <<FallbackSection>>

\* formatResult(data): the sections of the element it returns; no sections
\* stands for the null it returns for a falsy data
formatResult(d) ==
    IF ~JsTruthy(d) THEN << >>
    ELSE LET results == Or(Get(d, "results"), JObj(<< >>))
             found == SummarySection(d, results) \o CombinedSection(results)
                          \o BiasSection(results) \o AiImageSection(results)
                          \o ManipulatedSection(results) \o VideoSection(results)
                          \o FactcheckSection(results)
         IN IF Len(found) = 0 THEN <<FallbackSection>> ELSE found

\* payloads handed to formatResult: every recognised key absent or present
\* with one of a few values, among them null, the empty object and objects
\* with only some of the fields
Opt(k, values) == {<< >>} \cup {k :> val : val \in values}

CombinedValues == {JObj([short |-> JStr("mixed")]),
                   JObj([short |-> JStr("mixed"), confidence_score |-> JNum(9000)])}
BiasValues == {JNull, JObj(<< >>), JObj([label |-> JStr("Biased")])}
              \cup {JObj([label |-> JStr("Biased"), score |-> JNum(n)]) :
                        n \in {8200, 8249, Scale}}
AiImageValues == {JObj([predicted_class |-> JStr("fake"), confidence |-> JNum(9990)]),
                  JObj([predicted_class |-> JStr("fake")])}
ManipulatedValues ==
    {JObj([prediction |-> JStr("edited"), confidence |-> JNum(7000)]),
     JObj([prediction |-> JStr("edited"), confidence |-> JNum(7000),
           is_manipulated |-> JBool(FALSE), summary |-> JStr("spliced")])}
OverallVerdict == JObj([verdict |-> JStr("Likely Fake"), risk_level |-> JStr("High")])
VisualDetection == JObj([overall_prediction |-> JStr("fake"),
                         overall_confidence |-> JNum(9100)])
AudioDetection == JArr(<<JObj([label |-> JStr("spoof"), score |-> JNum(6000)])>>)
VideoValues == {JObj(<< >>),
                JObj([overall_verdict |-> OverallVerdict]),
                JObj([visual_detection |-> VisualDetection]),
                JObj([overall_verdict |-> JNull, audio_detection |-> JStr("none")]),
                JObj([overall_verdict |-> OverallVerdict,
                      visual_detection |-> VisualDetection,
                      audio_detection |-> AudioDetection])}
VideoOptions ==
    Opt("video", VideoValues)
    \cup Opt("video_analysis", {JObj([overall_verdict |-> OverallVerdict])})
    \cup Opt("video_result", {JObj([audio_detection |-> JArr(<< >>)])})
    \cup {("video" :> JNull) @@ ("video_result" :> JObj([visual_detection |-> VisualDetection]))}
    \cup {("video" :> JObj([visual_detection |-> VisualDetection]))
             @@ ("video_analysis" :> JObj([overall_verdict |-> OverallVerdict])),
          ("video_analysis" :> JObj([overall_verdict |-> OverallVerdict]))
             @@ ("video_result" :> JObj([audio_detection |-> JArr(<< >>)])),
          ("video" :> JObj([visual_detection |-> VisualDetection]))
             @@ ("video_analysis" :> JObj([overall_verdict |-> OverallVerdict]))
             @@ ("video_result" :> JObj([audio_detection |-> JArr(<< >>)])),
          ("video" :> JObj(<< >>))
             @@ ("video_result" :> JObj([overall_verdict |-> OverallVerdict]))}
FactcheckValues ==
    {JNull, JObj(<< >>),
     JObj([summary |-> JObj([verdict |-> JStr("false")])]),
     JObj([raw_text |-> JStr("claim"), summary |-> JStr("refuted"),
           claim_detail |-> JArr(<<JObj([claim |-> JStr("c1")])>>),
           token_count |-> JNum(120 * Scale)])}
ResultsObjects ==
    {JObj(s @@ c @@ b @@ a @@ m @@ v @@ f) :
        s \in Opt("summary", {JStr("nested")}),
        c \in Opt("combined", CombinedValues),
        b \in Opt("bias", BiasValues),
        a \in Opt("ai_image", AiImageValues),
        m \in Opt("manipulated", ManipulatedValues),
        v \in VideoOptions,
        f \in Opt("factcheck", FactcheckValues)}
Responses ==
    {JNull}
    \cup {JObj(s @@ r) : s \in Opt("summary", {JStr(""), JStr("top")}),
                         r \in Opt("results", ResultsObjects)}

\* URL.createObjectURL(file): a fresh URL on every call.  owner tells the
\* calls apart: 0 for the preview of the staged file (one URL stands for the
\* URLs of all renders that show it), n for the User message of submission n
createObjectURL(file, owner) == [file |-> file, owner |-> owner]

\* ----------------------------------------------------------- localStorage
\* JSON text of an object: its properties as key-value entries, in order
Entries(obj, keys) == [k \in 1..Len(keys) |-> <<keys[k], obj[keys[k]]>>]

\* the object a JSON text of entries parses to
FromEntries(entries) ==
    [key \in {entries[k][1] : k \in 1..Len(entries)} |->
        entries[CHOOSE k \in 1..Len(entries) : entries[k][1] = key][2]]

ChatKeys == <<"id", "title", "messages", "createdAt", "uid">>

MessageKeys(m) ==
    IF m.type = "user" THEN <<"type", "text", "image", "video", "sub">>
    ELSE IF m.type = "assistant" THEN <<"type", "data", "sub">>
    ELSE <<"type", "text", "sub">>

\* localStorage.getItem(key): null when the key was never set, else the text
NoItem == [set |-> FALSE, value |-> << >>]

\* JSON.stringify(chats)
StringifyChats(cs) ==
    [i \in 1..Len(cs) |->
        Entries([cs[i] EXCEPT !.messages =
                    [k \in 1..Len(cs[i].messages) |->
                        Entries(cs[i].messages[k], MessageKeys(cs[i].messages[k]))]],
                ChatKeys)]

\* mutant: the messages of the sessions are not read back
ParseChats_NoMessages(savedChats) ==
    [i \in 1..Len(savedChats) |->
        [FromEntries(savedChats[i]) EXCEPT !.messages = << >>]]

\* JSON.parse(savedChats)
ParseChats(savedChats) ==
    [i \in 1..Len(savedChats) |->
        LET chat == FromEntries(savedChats[i])
        IN [chat EXCEPT !.messages =
               [k \in 1..Len(chat.messages) |-> FromEntries(chat.messages[k])]]]

\* mutant: the effect has no chats.length > 0 test
saveEffect_SavesEmpty ==
    stored' = IF page = "home" /\ chats' # chats
              THEN [set |-> TRUE, value |-> StringifyChats(chats')]
              ELSE stored

\* mutant: the effect depends on chats.length instead of chats
saveEffect_OnLength ==
    stored' = IF page = "home" /\ Len(chats') # Len(chats) /\ Len(chats') > 0
              THEN [set |-> TRUE, value |-> StringifyChats(chats')]
              ELSE stored

\* the save effect of the home page, run after a render with a changed chats
saveEffect ==
    stored' = IF page = "home" /\ chats' # chats /\ Len(chats') > 0
              THEN [set |-> TRUE, value |-> StringifyChats(chats')]
              ELSE stored

\* ------------------------------------------------------------------ Init
Hooks ==
    /\ chats = << >>
    /\ currentChatId = Null
    /\ messages = << >>
    /\ text = << >>
    /\ image = Null
    /\ video = Null
    /\ isLoading = FALSE
    /\ inflight = {}
    /\ now = 0
    /\ nsub = 0
    /\ nchat = 0
    /\ attempt = "none"
    /\ stored = NoItem
    /\ objectURLs = {}

\* the component after its first render, with no Assistant message shown
Mounted ==
    /\ Hooks
    /\ messageData = Undefined
    /\ sections = << >>

\* the component about to render an Assistant message with some payload
InitNormalizer ==
    /\ page = "revised"
    /\ Hooks
    /\ messageData \in Responses
    /\ sections = << >>

Init == page = "revised" /\ Mounted

InitChat == page = "chat" /\ Mounted

InitAny == page \in Pages /\ Mounted

InitHome == page = "home" /\ Mounted

\* --------------------------------------------------------- session store
\* mutant: the staged video is not cleared
createNewChat_KeepsVideo(t) ==
    /\ now' = t
    /\ LET newChat == [id |-> ToString(t), title |-> DefaultTitle, messages |-> << >>,
                       createdAt |-> t, uid |-> nchat + 1]
       IN /\ chats' = <<newChat>> \o chats
          /\ currentChatId' = newChat.id
    /\ messages' = << >>
    /\ text' = << >>
    /\ image' = Null
    /\ video' = video
    /\ nchat' = nchat + 1
    /\ attempt' = "none"
    /\ UNCHANGED render
    /\ saveEffect
    /\ UNCHANGED <<page, isLoading, inflight, nsub, objectURLs>>

createNewChat(t) ==
    /\ now' = t
    /\ LET newChat == [id |-> ToString(t), title |-> DefaultTitle, messages |-> << >>,
                       createdAt |-> t, uid |-> nchat + 1]
       IN /\ chats' = <<newChat>> \o chats
          /\ currentChatId' = newChat.id
    /\ messages' = << >>
    /\ text' = << >>
    /\ image' = Null
    /\ video' = Null
    /\ nchat' = nchat + 1
    /\ attempt' = "none"
    /\ UNCHANGED render
    /\ saveEffect
    /\ UNCHANGED <<page, isLoading, inflight, nsub, objectURLs>>

\* mutant: the staged input is cleared when no session has the id
switchChat_ClearsOnMiss(chatId) ==
    /\ IF chatId \in ChatIds
       THEN /\ currentChatId' = chatId
            /\ messages' = Find(chatId).messages
            /\ text' = << >>
            /\ image' = Null
            /\ video' = Null
       ELSE /\ UNCHANGED <<currentChatId, messages>>
            /\ text' = << >>
            /\ image' = Null
            /\ video' = Null
    /\ attempt' = IF chatId \in ChatIds THEN "none" ELSE "miss"
    /\ UNCHANGED render
    /\ UNCHANGED <<page, chats, isLoading, inflight, now, nsub, nchat, stored, objectURLs>>

switchChat(chatId) ==
    /\ IF chatId \in ChatIds
       THEN /\ currentChatId' = chatId
            /\ messages' = Find(chatId).messages
            /\ text' = << >>
            /\ image' = Null
            /\ video' = Null
       ELSE UNCHANGED <<currentChatId, messages, text, image, video>>
    /\ attempt' = IF chatId \in ChatIds THEN "none" ELSE "miss"
    /\ UNCHANGED render
    /\ UNCHANGED <<page, chats, isLoading, inflight, now, nsub, nchat, stored, objectURLs>>

\* mutant: the last remaining session is promoted instead of the head
Successor_Last(updatedChats) ==
    IF Len(updatedChats) > 0
    THEN [id |-> updatedChats[Len(updatedChats)].id,
          messages |-> updatedChats[Len(updatedChats)].messages]
    ELSE [id |-> Null, messages |-> << >>]

\* mutant: no remaining session is promoted
Successor_None(updatedChats) == [id |-> Null, messages |-> << >>]

\* the session deleteChat makes active when the active one was removed
Successor(updatedChats) ==
    IF Len(updatedChats) > 0
    THEN [id |-> updatedChats[1].id, messages |-> updatedChats[1].messages]
    ELSE [id |-> Null, messages |-> << >>]

deleteChat(chatId) ==
    /\ LET updatedChats == Filter(chats, chatId)
       IN /\ chats' = updatedChats
          /\ IF currentChatId = chatId
             THEN /\ currentChatId' = Successor(updatedChats).id
                  /\ messages' = Successor(updatedChats).messages
             ELSE UNCHANGED <<currentChatId, messages>>
    /\ attempt' = "none"
    /\ UNCHANGED render
    /\ saveEffect
    /\ UNCHANGED <<page, text, image, video, isLoading, inflight, now, nsub, nchat,
                   objectURLs>>

\* ----------------------------------------------------------- staged input
setText(t) ==
    /\ text' = t
    /\ attempt' = "none"
    /\ UNCHANGED render
    /\ UNCHANGED <<page, chats, currentChatId, messages, image, video, isLoading,
                   inflight, now, nsub, nchat, stored, objectURLs>>

handleImageSelect(file) ==
    /\ image = Null
    /\ image' = file
    /\ objectURLs' = objectURLs \cup {createObjectURL(file, 0)}
    /\ attempt' = "none"
    /\ UNCHANGED render
    /\ UNCHANGED <<page, chats, currentChatId, messages, text, video, isLoading,
                   inflight, now, nsub, nchat, stored>>

handleVideoSelect(file) ==
    /\ video = Null
    /\ video' = file
    /\ objectURLs' = objectURLs \cup {createObjectURL(file, 0)}
    /\ attempt' = "none"
    /\ UNCHANGED render
    /\ UNCHANGED <<page, chats, currentChatId, messages, text, image, isLoading,
                   inflight, now, nsub, nchat, stored>>

removeImage ==
    /\ image # Null
    /\ image' = Null
    /\ attempt' = "none"
    /\ UNCHANGED render
    /\ UNCHANGED <<page, chats, currentChatId, messages, text, video, isLoading,
                   inflight, now, nsub, nchat, stored, objectURLs>>

removeVideo ==
    /\ video # Null
    /\ video' = Null
    /\ attempt' = "none"
    /\ UNCHANGED render
    /\ UNCHANGED <<page, chats, currentChatId, messages, text, image, isLoading,
                   inflight, now, nsub, nchat, stored, objectURLs>>

\* --------------------------------------------------- submission pipeline
\* the synchronous part of handleSubmit, up to the await of fetch
\* mutant: a dropped negation in the validation
NothingToSend_DroppedNot == ~Truthy(text) /\ image # Null /\ video = Null

\* the validation at the top of handleSubmit
NothingToSend == ~Truthy(text) /\ image = Null /\ video = Null

\* mutant: the video is never appended
FormData_NoVideo == [text |-> IF Truthy(text) THEN text ELSE NullText,
                     image |-> image, video |-> Null]

\* the fields appended to the FormData of the request
FormData == [text |-> IF Truthy(text) THEN text ELSE NullText,
             image |-> image, video |-> video]

handleSubmit(t) ==
    IF NothingToSend
    THEN UNCHANGED <<chats, currentChatId, messages, isLoading, inflight, nsub, nchat, now,
                     stored, objectURLs>>
    ELSE /\ LET userMessage == [type |-> "user",
                                 text |-> IF Truthy(text) THEN text ELSE NullText,
                                 image |-> image, video |-> video,
                                 sub |-> nsub + 1]
                newChat == [id |-> ToString(t),
                            title |-> IF Truthy(text) THEN TitleFrom(text) ELSE DefaultTitle,
                             messages |-> << >>, createdAt |-> t, uid |-> nchat + 1]
                 activeChatId == IF currentChatId = Null THEN newChat.id ELSE currentChatId
                 formData == FormData
            IN /\ chats' = IF currentChatId = Null THEN <<newChat>> \o chats ELSE chats
               /\ nchat' = IF currentChatId = Null THEN nchat + 1 ELSE nchat
               /\ currentChatId' = activeChatId
               /\ messages' = Append(messages, userMessage)
               /\ isLoading' = TRUE
               /\ inflight' = inflight \cup {[sub |-> nsub + 1, activeChatId |-> activeChatId,
                                               text |-> text, formData |-> formData,
                                               chat |-> IF currentChatId = Null THEN nchat + 1
                                                        ELSE IF currentChatId \in ChatIds
                                                             THEN Find(currentChatId).uid
                                                             ELSE 0]}
               /\ nsub' = nsub + 1
               /\ now' = IF currentChatId = Null THEN t ELSE now
               /\ objectURLs' = objectURLs
                      \cup {createObjectURL(image, nsub + 1) : x \in {image} \ {Null}}
                      \cup {createObjectURL(video, nsub + 1) : x \in {video} \ {Null}}
               /\ saveEffect

\* the send button's disabled attribute
SendDisabled ==
    IF page = "revised"
    THEN isLoading \/ (~Truthy(Trim(text)) /\ image = Null /\ video = Null)
    ELSE isLoading \/ (~Truthy(text) /\ image = Null /\ video = Null)

\* a click on the send button; a disabled button dispatches no click event
clickSend(t) ==
    /\ IF SendDisabled
       THEN UNCHANGED <<chats, currentChatId, messages, isLoading, inflight, nsub, nchat, now,
                        stored, objectURLs>>
       ELSE handleSubmit(t)
    /\ attempt' = "button"
    /\ UNCHANGED render
    /\ UNCHANGED <<page, text, image, video>>

\* Enter without Shift in the textarea (the revised page only)
handleKeyDown(t) ==
    /\ page = "revised"
    /\ handleSubmit(t)
    /\ attempt' = "enter"
    /\ UNCHANGED render
    /\ UNCHANGED <<page, text, image, video>>

\* ------------------------------------- continuation of handleSubmit
FetchFailed == <<"Error: ", "Failed to fetch">>
JsonSyntaxError == <<"Error: ", "Unexpected token < in JSON at position 0">>
UndefinedResults == <<"Error: ", "Cannot read properties of undefined (reading 'summary')">>

ErrorMessage(r, txt) ==
    [type |-> "error", text |-> txt, sub |-> r.sub]

AssistantMessage(r, data) ==
    [type |-> "assistant", data |-> data, sub |-> r.sub]

\* the non-OK branch of the revised page
ServerError(out) ==
    LET errBody == IF out.body.json THEN out.body.value
                   ELSE [error |-> "HTTP " \o ToString(out.status)]
    IN <<"Server error: ", Stringify(errBody)>>

\* the message the revised page appends when the request settles with out
ReplyRevised(r, out) ==
    IF out.kind = "reject" THEN ErrorMessage(r, FetchFailed)
    ELSE IF ~ResponseOk(out.status) THEN ErrorMessage(r, ServerError(out))
    ELSE IF ~out.body.json THEN ErrorMessage(r, JsonSyntaxError)
    ELSE IF ~HasKey(out.body.value, "results") THEN ErrorMessage(r, UndefinedResults)
    ELSE AssistantMessage(r, out.body.value)

\* the message the /chat page appends when the request settles with out
ReplyChat(r, out) ==
    IF out.kind = "reject" THEN ErrorMessage(r, FetchFailed)
    ELSE IF ~out.body.json THEN ErrorMessage(r, JsonSyntaxError)
    ELSE AssistantMessage(r, out.body.value)

Reply(r, out) == IF page = "revised" THEN ReplyRevised(r, out) ELSE ReplyChat(r, out)

\* setChats(prevChats => prevChats.map(...)) of the success case
UpdateChats(prevChats, activeChatId, updated, txt) ==
    [i \in 1..Len(prevChats) |->
        IF prevChats[i].id = activeChatId
        THEN [prevChats[i] EXCEPT
                 !.messages = updated,
                 !.title = IF prevChats[i].title = DefaultTitle /\ Truthy(txt)
                           THEN TitleFrom(txt) ELSE prevChats[i].title]
        ELSE prevChats[i]]

\* mutant: the staged image is not cleared
Finally_KeepsImage ==
    /\ isLoading' = FALSE
    /\ text' = << >>
    /\ image' = image
    /\ video' = Null

\* mutant: the pending flag is not reset
Finally_StillLoading ==
    /\ isLoading' = isLoading
    /\ text' = << >>
    /\ image' = Null
    /\ video' = Null

\* the finally block of handleSubmit
Finally ==
    /\ isLoading' = FALSE
    /\ text' = << >>
    /\ image' = Null
    /\ video' = Null

\* mutant: the title is taken from the text field as it is when the reply
\* arrives
settle_CurrentText(r, out) ==
    /\ r \in inflight
    /\ inflight' = inflight \ {r}
    /\ LET reply == Reply(r, out)
           updated == Append(messages, reply)
       IN /\ messages' = updated
          /\ chats' = IF reply.type = "assistant"
                      THEN UpdateChats(chats, r.activeChatId, updated, text)
                      ELSE chats
    /\ Finally
    /\ attempt' = "none"
    /\ UNCHANGED render
    /\ saveEffect
    /\ UNCHANGED <<page, currentChatId, now, nsub, nchat, objectURLs>>

\* mutant: the non-OK branch does not return, and the success case follows it
settle_FallsThrough(r, out) ==
    /\ r \in inflight
    /\ inflight' = inflight \ {r}
    /\ LET reply == Reply(r, out)
           updated == IF out.kind = "response" /\ ~ResponseOk(out.status) /\ out.body.json
                      THEN messages \o <<reply, AssistantMessage(r, out.body.value)>>
                      ELSE Append(messages, reply)
       IN /\ messages' = updated
          /\ chats' = IF reply.type = "assistant"
                      THEN UpdateChats(chats, r.activeChatId, updated, r.text)
                      ELSE chats
    /\ Finally
    /\ attempt' = "none"
    /\ UNCHANGED render
    /\ saveEffect
    /\ UNCHANGED <<page, currentChatId, now, nsub, nchat, objectURLs>>

\* mutant: a request that ends in an Error message is issued again
settle_Retries(r, out) ==
    /\ r \in inflight
    /\ inflight' = IF Reply(r, out).type = "error" THEN inflight ELSE inflight \ {r}
    /\ LET reply == Reply(r, out)
           updated == Append(messages, reply)
       IN /\ messages' = updated
          /\ chats' = IF reply.type = "assistant"
                      THEN UpdateChats(chats, r.activeChatId, updated, r.text)
                      ELSE chats
    /\ Finally
    /\ attempt' = "none"
    /\ UNCHANGED render
    /\ saveEffect
    /\ UNCHANGED <<page, currentChatId, now, nsub, nchat, objectURLs>>

\* the request of submission r settles with out: the rest of handleSubmit,
\* from the await of fetch through the finally block
settle(r, out) ==
    /\ r \in inflight
    /\ inflight' = inflight \ {r}
    /\ LET reply == Reply(r, out)
           updated == Append(messages, reply)
       IN /\ messages' = updated
          /\ chats' = IF reply.type = "assistant"
                      THEN UpdateChats(chats, r.activeChatId, updated, r.text)
                      ELSE chats
    /\ Finally
    /\ attempt' = "none"
    /\ UNCHANGED render
    /\ saveEffect
    /\ UNCHANGED <<page, currentChatId, now, nsub, nchat, objectURLs>>

\* --------------------------------------------------------------- reload
\* mutant: the load effect does not read localStorage
reload_NoLoad ==
    /\ LET parsedChats == << >>
       IN /\ chats' = parsedChats
          /\ currentChatId' = IF Len(parsedChats) > 0 THEN parsedChats[1].id ELSE Null
          /\ messages' = IF Len(parsedChats) > 0 THEN parsedChats[1].messages ELSE << >>
    /\ text' = << >>
    /\ image' = Null
    /\ video' = Null
    /\ isLoading' = FALSE
    /\ inflight' = {}
    /\ objectURLs' = {}
    /\ attempt' = "reload"
    /\ UNCHANGED render
    /\ saveEffect
    /\ UNCHANGED <<page, now, nsub, nchat>>

\* the page is loaded again: the component mounts with its initial state and
\* the load effect reads localStorage; the document of the earlier load is
\* gone, with its outstanding requests and its object URLs
reload ==
    /\ LET parsedChats == IF stored.set THEN ParseChats(stored.value) ELSE << >>
       IN /\ chats' = parsedChats
          /\ currentChatId' = IF Len(parsedChats) > 0 THEN parsedChats[1].id ELSE Null
          /\ messages' = IF Len(parsedChats) > 0 THEN parsedChats[1].messages ELSE << >>
    /\ text' = << >>
    /\ image' = Null
    /\ video' = Null
    /\ isLoading' = FALSE
    /\ inflight' = {}
    /\ objectURLs' = {}
    /\ attempt' = "reload"
    /\ UNCHANGED render
    /\ saveEffect
    /\ UNCHANGED <<page, now, nsub, nchat>>

\* ------------------------------------------------------------------ Next
\* a run accepts at most maxSubs submissions: an attempt is taken when it will
\* be ignored or when the run has a submission left
ButtonWithin(maxSubs) == nsub < maxSubs \/ SendDisabled

EnterWithin(maxSubs) == nsub < maxSubs \/ NothingToSend

\* the session store and the pipeline of the revised page
Session(maxSubs, maxChats) ==
    \/ nchat < maxChats /\ \E t \in ClockReadings : createNewChat(t)
    \/ \E chatId \in ChatIds : switchChat(chatId)
    \/ \E chatId \in ChatIds : deleteChat(chatId)
    \/ \E t \in Texts : setText(t)
    \/ ButtonWithin(maxSubs) /\ \E t \in ClockReadings : clickSend(t)
    \/ EnterWithin(maxSubs) /\ \E t \in ClockReadings : handleKeyDown(t)
    \/ \E r \in inflight, out \in Outcomes : settle(r, out)

Next == Session(MaxSubs, MaxChats)

Spec == Init /\ [][Next]_vars

\* the same page in longer runs: two submissions, so that two requests can be
\* outstanding and a session can hold an earlier exchange
NextRace == Session(MaxRaceSubs, MaxRaceChats)

SpecRace == Init /\ [][NextRace]_vars

\* the session store and the pipeline of the /chat page
NextChat ==
    \/ nchat < MaxChats /\ \E t \in ClockReadings : createNewChat(t)
    \/ \E chatId \in ChatIds : switchChat(chatId)
    \/ \E chatId \in ChatIds : deleteChat(chatId)
    \/ \E t \in Texts : setText(t)
    \/ ButtonWithin(MaxSubs) /\ \E t \in ClockReadings : clickSend(t)
    \/ \E r \in inflight, out \in Outcomes : settle(r, out)

SpecChat == InitChat /\ [][NextChat]_vars

\* the session store and the pipeline of the home page, with reloads
NextHome ==
    \/ nchat < MaxChats /\ \E t \in ClockReadings : createNewChat(t)
    \/ \E chatId \in ChatIds : switchChat(chatId)
    \/ \E chatId \in ChatIds : deleteChat(chatId)
    \/ \E t \in Texts : setText(t)
    \/ ButtonWithin(MaxSubs) /\ \E t \in ClockReadings : clickSend(t)
    \/ \E r \in inflight, out \in Outcomes : settle(r, out)
    \/ page = "home" /\ reload

SpecHome == InitHome /\ [][NextHome]_vars

\* the session store and the staged input, without submissions: sequences of
\* New Chat, switch (to any id, of a session or not) and delete
NextStore ==
    \/ nchat < MaxStoreChats /\ \E t \in ClockReadings : createNewChat(t)
    \/ \E chatId \in IssuedIds : switchChat(chatId)
    \/ \E chatId \in ChatIds : deleteChat(chatId)
    \/ \E t \in Texts : setText(t)
    \/ \E file \in ImageFiles : handleImageSelect(file)
    \/ \E file \in VideoFiles : handleVideoSelect(file)

SpecStore == Init /\ [][NextStore]_vars

\* the staged input and the pipeline of either page
NextInput ==
    \/ \E t \in Texts : setText(t)
    \/ \E file \in ImageFiles : handleImageSelect(file)
    \/ \E file \in VideoFiles : handleVideoSelect(file)
    \/ removeImage
    \/ removeVideo
    \/ ButtonWithin(MaxSubs) /\ \E t \in ClockReadings : clickSend(t)
    \/ EnterWithin(MaxSubs) /\ \E t \in ClockReadings : handleKeyDown(t)
    \/ \E r \in inflight, out \in Outcomes : settle(r, out)

SpecInput == InitAny /\ [][NextInput]_vars

\* submissions of short and long texts and of files, on either page; deleting
\* the session leaves none active again
NextTitle ==
    \/ \E t \in TitleTexts : setText(t)
    \/ \E file \in ImageFiles : handleImageSelect(file)
    \/ \E chatId \in ChatIds : deleteChat(chatId)
    \/ ButtonWithin(MaxSubs) /\ \E t \in ClockReadings : clickSend(t)
    \/ EnterWithin(MaxSubs) /\ \E t \in ClockReadings : handleKeyDown(t)
    \/ \E r \in inflight, out \in Outcomes : settle(r, out)

SpecTitle == InitAny /\ [][NextTitle]_vars

\* New Chat among sessions that hold messages, with text and files staged
NextCreate ==
    \/ nchat < MaxChats /\ \E t \in ClockReadings : createNewChat(t)
    \/ \E t \in Texts : setText(t)
    \/ \E file \in ImageFiles : handleImageSelect(file)
    \/ \E file \in VideoFiles : handleVideoSelect(file)
    \/ ButtonWithin(MaxSubs) /\ \E t \in ClockReadings : clickSend(t)
    \/ \E r \in inflight, out \in Outcomes : settle(r, out)

SpecCreate == Init /\ [][NextCreate]_vars

\* the render of the Assistant message: formatResult(message.data)
showResult ==
    /\ sections' = formatResult(messageData)
    /\ attempt' = "render"
    /\ UNCHANGED <<page, chats, currentChatId, messages, text, image, video, isLoading,
                   inflight, now, nsub, nchat, stored, objectURLs, messageData>>

NextNormalizer == showResult

SpecNormalizer == InitNormalizer /\ [][NextNormalizer]_vars

\* every request eventually resolves or rejects
Settles(s) == \E r \in inflight, out \in Outcomes : r.sub = s /\ settle(r, out)

LiveSpec == Spec /\ \A s \in 1..MaxSubs : WF_vars(Settles(s))

\* ---------------------------------------------------------------- claims
IsPrefix(a, b) == Len(a) <= Len(b) /\ SubSeq(b, 1, Len(a)) = a

Last(seq) == seq[Len(seq)]

SendAttempts == {"button", "enter"}

Pending(s) == \E r \in inflight : r.sub = s

\* C1: at most one submission is Pending at any time; while a request is
\* outstanding, a further attempt to send (button or Enter) appends no message
\* and issues no request.
C1_SingleFlight ==
    /\ [](Cardinality(inflight) <= 1)
    /\ [][(inflight # {} /\ attempt' \in SendAttempts)
            => (messages' = messages /\ inflight' = inflight)]_vars

\* C2: the stored messages of a session that stays in the collection only grow
\* by appending: across every step the earlier sequence is a prefix of the
\* later one.
C2_AppendOnly ==
    [][\A i \in 1..Len(chats) : \A j \in 1..Len(chats') :
          chats[i].uid = chats'[j].uid
              => IsPrefix(chats[i].messages, chats'[j].messages)]_vars

\* C3: an attempt to send with empty text and no staged image or video appends
\* no message, creates no session, leaves the pipeline as it was and issues no
\* request.
C3_EmptySubmitIgnored ==
    [][(~Truthy(text) /\ image = Null /\ video = Null /\ attempt' \in SendAttempts)
        => UNCHANGED <<chats, currentChatId, messages, isLoading, inflight, nsub, nchat>>]_vars

\* C3 witness: the latest event was an attempt to send by Enter with nothing
\* staged (an accepted attempt leaves its input staged until it settles).
C3_Witness ==
    /\ attempt = "enter"
    /\ ~Truthy(text) /\ image = Null /\ video = Null
    /\ messages = << >> /\ chats = << >> /\ ~isLoading /\ inflight = {}

ActiveValid == currentChatId = Null \/ currentChatId \in ChatIds

HeadId(cs) == IF Len(cs) > 0 THEN cs[1].id ELSE Null

\* C4: after every New Chat and every delete the active session is the id of a
\* session in the collection or none, and when the step removed the active
\* session it is the head of the remaining collection (none if that is empty).
C4_ActiveAfterCreateDelete ==
    [][(Len(chats') # Len(chats))
        => /\ ActiveValid'
           /\ (Len(chats') < Len(chats) /\ currentChatId \notin ChatIds')
                  => currentChatId' = HeadId(chats')]_vars

\* C4 witness: three sessions were created, the active head was deleted and
\* two sessions with different ids remain, the head of them active.
C4_Witness ==
    /\ nchat = 3 /\ Len(chats) = 2
    /\ chats[1].uid = 2 /\ chats[2].uid = 1
    /\ chats[1].id # chats[2].id
    /\ currentChatId = chats[1].id

\* C5: in every reachable state the active pointer is none exactly when the
\* collection is empty, and otherwise is the id of a session in the collection.
C5_ActiveIffNonEmpty ==
    /\ (currentChatId = Null) <=> (chats = << >>)
    /\ currentChatId # Null => currentChatId \in ChatIds

\* C5 witness: after a submission that created a session has settled, a New
\* Chat, a switch back and a delete, one session remains and is active.
C5_Witness ==
    /\ nsub >= 1 /\ inflight = {} /\ nchat = 2 /\ Len(chats) = 1
    /\ chats[1].messages # << >>
    /\ messages = chats[1].messages
    /\ currentChatId = chats[1].id

\* one timeline keeps the order of submissions: a reply follows the User
\* message of its own submission, and the reply to an earlier submission
\* precedes the User message of a later one
Ordered(tl) ==
    /\ \A k \in 1..Len(tl) :
          tl[k].type # "user"
              => \E j \in 1..(k - 1) : tl[j].type = "user" /\ tl[j].sub = tl[k].sub
    /\ \A j \in 1..Len(tl) : \A k \in 1..Len(tl) :
          (tl[j].type # "user" /\ tl[k].type = "user" /\ tl[j].sub < tl[k].sub) => j < k

\* C6: in the displayed timeline and in every stored timeline, the Assistant or
\* Error message of a submission comes after that submission's User message,
\* and the reply to an earlier submission precedes the User message of a later
\* one.
C6_ReplyOrder ==
    /\ Ordered(messages)
    /\ \A i \in 1..Len(chats) : Ordered(chats[i].messages)

IsJsonObject2xx(out) ==
    out.kind = "response" /\ ResponseOk(out.status) /\ out.body.json

\* C7: a 2xx response whose body parses as a JSON object, `{}` included,
\* appends exactly one Assistant message carrying the payload, and no Error
\* message.
C7_SuccessAppendsAssistant ==
    [][\A r \in inflight : \A out \in Outcomes :
          (IsJsonObject2xx(out) /\ settle(r, out))
              => messages' = Append(messages, AssistantMessage(r, out.body.value))]_vars

\* C8: on the /chat page too, a response with a non-2xx status appends an
\* Error message and never an Assistant message, whatever its body.
C8_NonOkAppendsError ==
    [][\A r \in inflight : \A out \in Outcomes :
          (out.kind = "response" /\ ~ResponseOk(out.status) /\ settle(r, out))
              => /\ Len(messages') = Len(messages) + 1
                 /\ Last(messages').type = "error"]_vars

StagedEmpty == text = << >> /\ image = Null /\ video = Null

\* C9: after a submission settles with an HTTP 500 response the staged text,
\* image and video are empty and the pipeline is Idle, as they are after a
\* submission that settles with an Assistant message.
C9_ClearedAfter500 ==
    [][\A r \in inflight : \A out \in Outcomes :
          (settle(r, out) /\ ((out.kind = "response" /\ out.status = 500)
                                \/ Reply(r, out).type = "assistant"))
              => (StagedEmpty /\ ~isLoading)']_vars

\* C9 witness: on the revised page a submission that carried text, an image and
\* a video has just settled with a 500 whose body was not JSON, and nothing is
\* staged.
C9_Witness ==
    /\ page = "revised" /\ Len(messages) = 2
    /\ messages[1].type = "user" /\ messages[1].image # Null /\ messages[1].video # Null
    /\ messages[1].text # NullText
    /\ messages[2].type = "error"
    /\ messages[2].text = <<"Server error: ", "{\"error\":\"HTTP 500\"}">>
    /\ StagedEmpty /\ ~isLoading /\ inflight = {}

\* C10: every submission that enters Pending returns to Idle: its request
\* settles, whatever the outcome, and the pipeline is then Idle.
C10_PendingLeadsToIdle ==
    \A s \in 1..MaxSubs : Pending(s) ~> (~Pending(s) /\ ~isLoading)

\* C10 witness: a submission whose response was a 2xx with an unparseable body
\* has settled and the pipeline is Idle.
C10_Witness ==
    /\ nsub = 1 /\ inflight = {} /\ ~isLoading
    /\ Len(messages) = 2 /\ messages[2].type = "error"
    /\ messages[2].text = JsonSyntaxError

\* C11: a reload with a non-empty collection (which the save effect has
\* persisted) yields the same sessions in the same order, each with the same
\* id, title, createdAt and messages.
C11_PersistLoadRoundTrip ==
    [][(chats # << >> /\ attempt' = "reload")
        => /\ Len(chats') = Len(chats)
           /\ \A i \in 1..Len(chats) :
                 /\ chats'[i].id = chats[i].id
                 /\ chats'[i].title = chats[i].title
                 /\ chats'[i].createdAt = chats[i].createdAt
                 /\ chats'[i].messages = chats[i].messages]_vars

\* C11 witness: the page was reloaded and shows two sessions, one of them with
\* a derived title and a stored exchange.
C11_Witness ==
    /\ attempt = "reload" /\ Len(chats) = 2
    /\ \E i \in 1..2 : /\ chats[i].title # DefaultTitle
                        /\ Len(chats[i].messages) = 2
                        /\ chats[i].messages[1].type = "user"
                        /\ chats[i].messages[2].type = "assistant"

C13_PersistedAfterMutation ==
    [][(chats' # chats /\ chats' # << >>)
        => stored' = [set |-> TRUE, value |-> StringifyChats(chats')]]_vars

\* C13 witness: a successful response has updated the stored messages and the
\* title of a session, and the persisted value holds them.
C13_Witness ==
    /\ page = "home" /\ inflight = {} /\ attempt = "none" /\ Len(chats) > 0
    /\ chats[1].title # DefaultTitle /\ Len(chats[1].messages) = 2
    /\ stored = [set |-> TRUE, value |-> StringifyChats(chats)]

\* C14: every object URL created from a staged file is released by the
\* removal of the file, by the submission or by teardown: the URLs not yet
\* released are previews of a file that is still staged, or belong to the User
\* message of a submission that is still Pending.
C14_PreviewsReleased ==
    \A u \in objectURLs :
        \/ u.owner = 0 /\ u.file \in {image, video}
        \/ u.owner > 0 /\ Pending(u.owner)

\* C15: every request issued carries the text when it was non-empty at the
\* moment of submit, the image and the video when they were staged, no other
\* field, and at least one field.
C15_RequestFields ==
    [][\A r \in inflight' \ inflight :
          /\ r.formData.text = (IF text # << >> THEN text ELSE NullText)
          /\ r.formData.image = image
          /\ r.formData.video = video
          /\ \/ r.formData.text # NullText
             \/ r.formData.image # Null
             \/ r.formData.video # Null]_vars

\* C15 witness: a request that carries a video and neither text nor image is
\* outstanding.
C15_Witness ==
    \E r \in inflight :
        /\ r.formData.text = NullText
        /\ r.formData.image = Null
        /\ r.formData.video \in VideoFiles

\* C16: when a submission that had non-empty text settles, with an Assistant
\* message or with an Error message, a session it was made to whose title was
\* still the default label has another title afterwards.
C16_TitleAfterCompletion ==
    [][\A r \in inflight : \A out \in Outcomes :
          (settle(r, out) /\ Truthy(r.text))
              => \A i \in 1..Len(chats) :
                    (chats[i].id = r.activeChatId /\ chats[i].title = DefaultTitle)
                        => chats'[i].title # DefaultTitle]_vars

\* a submit is accepted while no session is active
AcceptedWithoutSession == nsub' = nsub + 1 /\ currentChatId = Null

\* C17 as stated: when a submit is accepted while no session is active, one
\* session is created at the head of the collection and made active, and its
\* title is the first 30 characters of the submitted text, or the default
\* label when the text is absent.
C17_TitleIsFirst30 ==
    [][AcceptedWithoutSession
        => /\ Len(chats') = Len(chats) + 1
           /\ SubSeq(chats', 2, Len(chats')) = chats
           /\ currentChatId' = chats'[1].id
           /\ chats'[1].title = IF text # << >>
                                THEN SubSeq(text, 1, IF Len(text) < 30 THEN Len(text) ELSE 30)
                                ELSE DefaultTitle]_vars

\* C17 amended: when a submit is accepted while no session is active, one
\* session is created at the head of the collection and made active, and its
\* title is the first 30 characters of the submitted text followed by "...",
\* or the default label when the text is absent.
C17_TitleIsFirst30AndEllipsis ==
    [][AcceptedWithoutSession
        => /\ Len(chats') = Len(chats) + 1
           /\ SubSeq(chats', 2, Len(chats')) = chats
           /\ currentChatId' = chats'[1].id
           /\ chats'[1].title = IF text # << >>
                                THEN SubSeq(text, 1, IF Len(text) < 30 THEN Len(text) ELSE 30)
                                         \o <<".", ".", ".">>
                                ELSE DefaultTitle]_vars

\* C17 witness: the submission of a text of 31 characters created the only
\* session, which is active and whose title has 30 characters and the dots.
C17_Witness ==
    /\ nsub = 1 /\ Len(chats) = 1 /\ currentChatId = chats[1].id
    /\ Len(messages) > 0 /\ messages[1].text = LongText
    /\ Len(chats[1].title) = 33
    /\ chats[1].title[30] = "a" /\ chats[1].title[31] = "."

\* C18: New Chat puts a session with no messages at the head of the
\* collection, makes it active, empties the displayed timeline and the staged
\* text, image and video, and leaves the sessions there were unchanged and in
\* their order.
C18_CreateSession ==
    [][(nchat' = nchat + 1 /\ nsub' = nsub)
        => /\ Len(chats') = Len(chats) + 1
           /\ chats'[1].messages = << >>
           /\ SubSeq(chats', 2, Len(chats')) = chats
           /\ currentChatId' = chats'[1].id
           /\ messages' = << >>
           /\ text' = << >> /\ image' = Null /\ video' = Null]_vars

\* C18 witness: a submission created a session and is still Pending, an image
\* and a video were staged after it, and New Chat has put an empty session
\* before the first one and cleared the timeline and the staged files.
C18_Witness ==
    /\ nsub = 1 /\ inflight # {} /\ nchat = 2 /\ Len(chats) = 2
    /\ chats[1].uid = 2 /\ chats[1].messages = << >> /\ chats[2].uid = 1
    /\ currentChatId = chats[1].id
    /\ messages = << >> /\ StagedEmpty
    /\ \E u \in objectURLs : u.owner = 0 /\ u.file \in ImageFiles
    /\ \E u \in objectURLs : u.owner = 0 /\ u.file \in VideoFiles
    /\ \A r \in inflight : r.formData.image = Null /\ r.formData.video = Null

\* C19: a switch to an id that no session in the collection has changes
\* neither the collection, nor the active pointer, nor the displayed timeline,
\* nor the staged text, image and video.
C19_SwitchToUnknownId ==
    [][attempt' = "miss"
        => UNCHANGED <<chats, currentChatId, messages, text, image, video>>]_vars

\* C19 witness: the latest event was a switch to an id of no session, with
\* text, an image and a video staged, two sessions and the older one active.
C19_Witness ==
    /\ attempt = "miss"
    /\ Len(chats) = 2 /\ chats[1].id # chats[2].id /\ currentChatId = chats[2].id
    /\ text # << >> /\ image # Null /\ video # Null

\* C20: no two sessions in the collection have the same id.
C20_UniqueIds ==
    \A i \in 1..Len(chats) : \A j \in 1..Len(chats) :
        i # j => chats[i].id # chats[j].id

\* C21: an attempt to send, by the button or by Enter, with text that is empty
\* or only whitespace and no staged image or video creates no session, appends
\* no message and issues no request.
C21_BlankSubmitIgnored ==
    [][(~Truthy(Trim(text)) /\ image = Null /\ video = Null /\ attempt' \in SendAttempts)
        => UNCHANGED <<chats, currentChatId, messages, inflight, nsub, nchat>>]_vars

\* ------------------------------------------------- claims on the normalizer
\* a value is present and non-empty: not undefined, not null, not the empty
\* string, not 0 and not false (an object counts, whatever its fields)
NonEmpty(j) ==
    /\ j.t \notin {"undefined", "null"}
    /\ j.t = "string" => j.v # ""
    /\ j.t = "number" => j.v # 0
    /\ j.t = "boolean" => j.v

\* the results object of a payload, empty when the payload has none
ResultsOf(d) == IF NonEmpty(Get(d, "results")) THEN Get(d, "results") ELSE JObj(<< >>)

SectionKinds ==
    <<"summary", "combined", "bias", "ai_image", "manipulated", "video", "factcheck">>

SectionTitles ==
    <<"Summary", "Combined Analysis", "Bias Analysis", "AI Image Detection",
      "Manipulation Detection", "Video Analysis", "Fact Check">>

\* the key of a kind of section is present and non-empty in payload d
Recognised(d, kind) ==
    CASE kind = "summary" ->
            NonEmpty(Get(d, "summary")) \/ NonEmpty(Get(ResultsOf(d), "summary"))
      [] kind = "video" ->
            \E k \in {"video", "video_analysis", "video_result"} :
                NonEmpty(Get(ResultsOf(d), k))
      [] kind = "factcheck" ->
            /\ NonEmpty(Get(ResultsOf(d), "factcheck"))
            /\ DOMAIN Get(ResultsOf(d), "factcheck").v # {}
      [] OTHER -> NonEmpty(Get(ResultsOf(d), kind))

Rendered == attempt = "render" /\ messageData.t = "object"

HasSection(key) == \E i \in 1..Len(sections) : sections[i].key = key

Rank(key) == CHOOSE n \in 1..Len(SectionKinds) : SectionKinds[n] = key

\* C23: the sections come in the order Summary, Combined Analysis, Bias
\* Analysis, AI Image Detection, Manipulation Detection, Video Analysis, Fact
\* Check, each at most once and under its title, and a section is there
\* exactly when its own key is present and non-empty, whatever the other keys.
C23_OrderAndIndependence ==
    Rendered
        => /\ \A n \in 1..Len(SectionKinds) :
                  HasSection(SectionKinds[n]) <=> Recognised(messageData, SectionKinds[n])
           /\ ~HasSection("fallback")
                  => /\ \A i \in 1..Len(sections) :
                            sections[i].title = SectionTitles[Rank(sections[i].key)]
                     /\ \A i \in 1..Len(sections) : \A j \in 1..Len(sections) :
                            i < j => Rank(sections[i].key) < Rank(sections[j].key)

\* C23 witness: a payload with all seven keys was rendered as seven sections.
C23_Witness ==
    /\ Rendered /\ Len(sections) = 7
    /\ sections[1].key = "summary" /\ sections[7].key = "factcheck"

\* a score (in ten-thousandths) times 100, to the nearest tenth, as text
OneDecimal(n) ==
    LET tenths == CHOOSE x \in 0..(Scale \div 10) : 10 * x - 5 <= n /\ n < 10 * x + 5
    IN ToString(tenths \div 10) \o "." \o ToString(tenths % 10)

\* the only recognised key of the payload is results.bias, an object with a
\* label and a score between 0 and 1
OnlyBias ==
    /\ \A n \in 1..Len(SectionKinds) :
          Recognised(messageData, SectionKinds[n]) <=> SectionKinds[n] = "bias"
    /\ Get(ResultsOf(messageData), "bias").t = "object"
    /\ Get(Get(ResultsOf(messageData), "bias"), "label").t = "string"
    /\ Get(Get(ResultsOf(messageData), "bias"), "score").t = "number"
    /\ Get(Get(ResultsOf(messageData), "bias"), "score").v \in 0..Scale

\* C24: a payload whose only recognised key is results.bias = {label, score},
\* with the score between 0 and 1, yields exactly one section, titled "Bias
\* Analysis", whose score line shows the score times 100 with one decimal:
\* "82.0%" for 0.82.
C24_BiasScorePercent ==
    (Rendered /\ OnlyBias)
        => LET score == Get(Get(ResultsOf(messageData), "bias"), "score").v
           IN /\ Len(sections) = 1
              /\ sections[1].title = "Bias Analysis"
              /\ sections[1].lines[2] = <<"Score: ", OneDecimal(score), "%">>
              /\ score = 8200 => sections[1].lines[2] = <<"Score: ", "82.0", "%">>

\* C24 witness: {results: {bias: {label: "Biased", score: 0.8249}}} was
\* rendered as one section with the score line "Score: 82.5%".
C24_Witness ==
    /\ Rendered /\ OnlyBias
    /\ Get(Get(ResultsOf(messageData), "bias"), "score").v = 8249
    /\ Len(sections) = 1
    /\ sections[1].lines = <<<<"Label: ", "Biased">>, <<"Score: ", "82.5", "%">>>>

\* the video object of a payload: the first non-empty one of the three keys
VideoOf(d) ==
    LET r == ResultsOf(d)
    IN IF NonEmpty(Get(r, "video")) THEN Get(r, "video")
       ELSE IF NonEmpty(Get(r, "video_analysis")) THEN Get(r, "video_analysis")
       ELSE Get(r, "video_result")

\* the lines of the rendered Video Analysis section
VideoLines ==
    LET i == CHOOSE n \in 1..Len(sections) : sections[n].key = "video"
    IN sections[i].lines

\* some line of the Video Analysis section starts with the given piece
HasVideoLine(head) == \E n \in 1..Len(VideoLines) : VideoLines[n][1] = head

\* the lines of the Video Analysis section that are neither a verdict, a
\* visual nor a heading line: one per element of audio_detection
AudioLineCount ==
    Cardinality({n \in 1..Len(VideoLines) :
        VideoLines[n][1] \notin {"Verdict: ", "Risk Level: ", "Visual Detection:",
                                 "Overall: ", "Audio Detection:"}})

\* C25: a Video Analysis section shows the verdict and risk-level lines
\* exactly when overall_verdict is present, the visual lines exactly when
\* visual_detection is present, and the audio lines exactly when
\* audio_detection is a list; with only overall_verdict present it shows the
\* verdict and the risk level and nothing else.
C25_VideoSubLines ==
    (Rendered /\ HasSection("video"))
        => LET v == VideoOf(messageData)
           IN /\ HasVideoLine("Verdict: ") <=> NonEmpty(Get(v, "overall_verdict"))
              /\ HasVideoLine("Risk Level: ") <=> NonEmpty(Get(v, "overall_verdict"))
              /\ HasVideoLine("Visual Detection:") <=> NonEmpty(Get(v, "visual_detection"))
              /\ HasVideoLine("Overall: ") <=> NonEmpty(Get(v, "visual_detection"))
              /\ HasVideoLine("Audio Detection:") <=> Get(v, "audio_detection").t = "array"
              /\ AudioLineCount = IF Get(v, "audio_detection").t = "array"
                                  THEN Len(Get(v, "audio_detection").v) ELSE 0
              /\ (v.t = "object" /\ DOMAIN v.v = {"overall_verdict"}
                     /\ NonEmpty(Get(v, "overall_verdict")))
                    => VideoLines = <<<<"Verdict: ", "Likely Fake">>, <<"Risk Level: ", "High">>>>

\* C25 witness: a video object holding only overall_verdict was rendered as
\* the two lines "Verdict: Likely Fake" and "Risk Level: High".
C25_Witness ==
    /\ Rendered /\ HasSection("video")
    /\ DOMAIN VideoOf(messageData).v = {"overall_verdict"}
    /\ VideoLines = <<<<"Verdict: ", "Likely Fake">>, <<"Risk Level: ", "High">>>>

\* C26: each accepted submission issues exactly one request, and no request is
\* issued for it again after a non-success status or an exception: a step
\* that accepts a submission adds one request, that of the new submission;
\* every other step adds none, and the step that settles a request leaves
\* none outstanding for its submission.
C26_OneRequestPerSubmission ==
    [][/\ nsub' = nsub + 1
            => /\ Cardinality(inflight' \ inflight) = 1
               /\ \A r \in inflight' \ inflight : r.sub = nsub'
       /\ nsub' = nsub => inflight' \subseteq inflight
       /\ \A r \in inflight : \A out \in Outcomes :
             settle(r, out) => \A q \in inflight' : q.sub # r.sub]_vars

\* C26 witness: a submission was answered with a non-success status; its
\* Error message is shown and no request is outstanding.
C26_Witness ==
    /\ nsub = 1 /\ inflight = {} /\ ~isLoading
    /\ Len(messages) = 2
    /\ messages[2].type = "error" /\ messages[2].text[1] = "Server error: "

\* the stored messages of the active session, none when no session is active
StoredTimeline ==
    IF currentChatId \in ChatIds THEN Find(currentChatId).messages ELSE << >>

\* C27: whenever the pipeline is Idle, the displayed timeline equals the
\* stored messages of the active session (and is empty when no session is
\* active); after a submission that ended in an Error, the User and Error
\* messages are therefore still shown after switching away and back.
C27_DisplayedIsStored ==
    (~isLoading /\ inflight = {}) => messages = StoredTimeline

\* C28: when a submission made in session A settles while another session is
\* active, the reply is recorded only in A: the displayed timeline, which is
\* the other session's, gains no message, no other session's stored messages
\* change, and A's stored messages gain nothing but the reply to the
\* submission.
C28_ReplyOnlyInItsSession ==
    [][\A r \in inflight : \A out \in Outcomes :
          (/\ settle(r, out)
           /\ currentChatId # r.activeChatId
           /\ currentChatId \in ChatIds /\ r.activeChatId \in ChatIds)
              => /\ messages' = messages
                 /\ \A i \in 1..Len(chats) :
                       /\ chats[i].id # r.activeChatId
                             => chats'[i].messages = chats[i].messages
                       /\ chats[i].id = r.activeChatId
                             => \A k \in 1..Len(chats'[i].messages) :
                                   \/ chats'[i].messages[k].sub = r.sub
                                   \/ \E j \in 1..Len(chats[i].messages) :
                                         chats[i].messages[j] = chats'[i].messages[k]]_vars

\* the replies in the displayed timeline to submission s
Replies(s) ==
    SelectSeq(messages, LAMBDA m : m.sub = s /\ m.type \in {"assistant", "error"})

\* C29: an accepted submission appends exactly one User message to the
\* displayed timeline when it is submitted and exactly one further message,
\* an Assistant or an Error message, when it completes: while the timeline is
\* not switched, it holds one User message per submission, no reply to a
\* Pending one and one reply to a completed one.
C29_OneUserOneReply ==
    /\ [](\A s \in 1..nsub :
            /\ Len(SelectSeq(messages, LAMBDA m : m.sub = s /\ m.type = "user")) = 1
            /\ Len(Replies(s)) = IF Pending(s) THEN 0 ELSE 1)
    /\ [][/\ nsub' = nsub + 1
                => /\ Len(messages') = Len(messages) + 1
                   /\ IsPrefix(messages, messages')
                   /\ Last(messages').type = "user" /\ Last(messages').sub = nsub'
           /\ \A r \in inflight : \A out \in Outcomes :
                 settle(r, out)
                     => /\ Len(messages') = Len(messages) + 1
                        /\ IsPrefix(messages, messages')
                        /\ Last(messages').type \in {"assistant", "error"}
                        /\ Last(messages').sub = r.sub]_vars

\* C29 witness: a submission with a staged image completed with an Error
\* message; the timeline holds its User message and that Error message.
C29_Witness ==
    /\ nsub = 1 /\ inflight = {} /\ Len(messages) = 2
    /\ messages[1].type = "user" /\ messages[1].image # Null
    /\ messages[2].type = "error" /\ messages[2].sub = 1

\* C30: the Pending indicator is true exactly when at least one request is
\* outstanding; it is never false while a request issued by handleSubmit has
\* not completed.
C30_LoadingIffOutstanding == isLoading <=> inflight # {}

\* the sessions of the collection by creation number
ChatUids == {chats[i].uid : i \in 1..Len(chats)}

\* C31: a session deleted while its submission is Pending does not reappear
\* in the collection when the response arrives, and the arriving reply changes
\* no remaining session's stored messages or title.
C31_DeletedStaysDeleted ==
    [][\A r \in inflight : \A out \in Outcomes :
          (settle(r, out) /\ r.chat \notin ChatUids)
              => /\ r.chat \notin ChatUids'
                 /\ chats' = chats]_vars

\* the messages of a timeline, as a set
Elements(tl) == {tl[k] : k \in 1..Len(tl)}

\* C32: the request, the User message and the title update of a submission
\* use the text and the attachments staged when it was submitted: the step
\* that accepts it builds the request and the User message from them, no
\* later step alters either, and the title written when the reply arrives is
\* derived from the text of the request, whatever the text field holds then.
C32_SubmitTimeInput ==
    [][/\ nsub' = nsub + 1
            => /\ \A r \in inflight' \ inflight :
                     /\ r.text = text
                     /\ r.formData = [text |-> IF Truthy(text) THEN text ELSE NullText,
                                      image |-> image, video |-> video]
               /\ Last(messages').type = "user"
               /\ Last(messages').text = (IF Truthy(text) THEN text ELSE NullText)
               /\ Last(messages').image = image /\ Last(messages').video = video
       /\ nsub' = nsub
            => /\ inflight' \subseteq inflight
               /\ \A m \in Elements(messages') : m.type = "user" => m \in Elements(messages)
       /\ \A r \in inflight : \A out \in Outcomes :
             (settle(r, out) /\ Last(messages').type = "assistant")
                 => \A i \in 1..Len(chats) :
                       chats'[i].title =
                           IF chats[i].id = r.activeChatId /\ chats[i].title = DefaultTitle
                                  /\ Truthy(r.text)
                           THEN TitleFrom(r.text) ELSE chats[i].title]_vars

\* C32 witness: while a submission of the text "hi" made in a session with the
\* default title is Pending, the text field was edited and an image staged;
\* the request and the User message still hold "hi" and no image.
C32_Witness ==
    /\ \E r \in inflight :
          /\ r.text = <<"h", "i">> /\ r.formData.image = Null
          /\ messages # << >> /\ Last(messages).sub = r.sub
          /\ Last(messages).text = <<"h", "i">> /\ Last(messages).image = Null
          /\ \E i \in 1..Len(chats) :
                chats[i].id = r.activeChatId /\ chats[i].title = DefaultTitle
    /\ text = <<" ">> /\ image # Null

\* C33: after startup with a persisted non-empty collection, the collection
\* in memory is the persisted one, the active session is its head, the
\* displayed timeline is the head's messages, and the persisted value is what
\* it was: the empty initial state has not been written over it.
C33_StartupRestores ==
    [][(attempt' = "reload" /\ stored.set /\ Len(stored.value) > 0)
        => /\ chats' = ParseChats(stored.value)
           /\ currentChatId' = chats'[1].id
           /\ messages' = chats'[1].messages
           /\ stored' = stored]_vars

\* C33 witness: the page started with two persisted sessions; the head, which
\* holds an exchange, is active and displayed.
C33_Witness ==
    /\ attempt = "reload" /\ Len(chats) = 2
    /\ currentChatId = chats[1].id
    /\ Len(chats[1].messages) = 2 /\ messages = chats[1].messages
    /\ stored = [set |-> TRUE, value |-> StringifyChats(chats)]

\* a sequence without its i-th element
Without(seq, i) == SubSeq(seq, 1, i - 1) \o SubSeq(seq, i + 1, Len(seq))

\* C34: deleting a session that is not active removes exactly that session
\* and leaves the active pointer, the displayed timeline, the staged text and
\* attachments, and the other sessions in their order, as they were.
C34_DeleteInactive ==
    [][\A chatId \in ChatIds :
          (deleteChat(chatId) /\ chatId # currentChatId)
              => /\ \E i \in 1..Len(chats) :
                       chats[i].id = chatId /\ chats' = Without(chats, i)
                 /\ UNCHANGED <<currentChatId, messages, text, image, video>>]_vars

\* an object without fields
IsEmptyObject(j) == j.t = "object" /\ DOMAIN j.v = {}

VideoKeys == {"video", "video_analysis", "video_result"}

\* C35: a value of results.combined, results.bias, results.ai_image,
\* results.manipulated or of the video keys that is present but an empty
\* object emits no section, and a payload holding nothing but such values
\* yields exactly the fallback section.
C35_EmptyObjectNoSection ==
    Rendered
        => LET r == ResultsOf(messageData)
           IN /\ \A key \in {"combined", "bias", "ai_image", "manipulated"} :
                    IsEmptyObject(Get(r, key)) => ~HasSection(key)
              /\ ((\E k \in VideoKeys : IsEmptyObject(Get(r, k)))
                     /\ \A k \in VideoKeys : ~NonEmpty(Get(r, k)) \/ IsEmptyObject(Get(r, k)))
                    => ~HasSection("video")
              /\ (r.v # << >> /\ \A k \in DOMAIN r.v : IsEmptyObject(r.v[k])
                     /\ ~NonEmpty(Get(messageData, "summary")))
                    => (Len(sections) = 1 /\ sections[1].key = "fallback")

\* the lines of the rendered section of the given kind
LinesOf(key) ==
    LET i == CHOOSE n \in 1..Len(sections) : sections[n].key = key
    IN sections[i].lines

\* the section of the given kind has a line that starts with the given piece
HasLine(key, head) == \E n \in 1..Len(LinesOf(key)) : LinesOf(key)[n][1] = head

\* C36: within a matched section an absent sub-field omits only its own
\* line: a Bias section whose score is absent shows no score line, an AI Image
\* or Manipulation section whose confidence is absent shows no confidence
\* line, and the section itself is still emitted.
C36_AbsentFieldOmitsLine ==
    Rendered
        => LET r == ResultsOf(messageData)
           IN /\ (NonEmpty(Get(r, "bias")) /\ Get(Get(r, "bias"), "score") = Undefined)
                    => (HasSection("bias") /\ ~HasLine("bias", "Score: "))
              /\ (NonEmpty(Get(r, "ai_image"))
                     /\ Get(Get(r, "ai_image"), "confidence") = Undefined)
                    => (HasSection("ai_image") /\ ~HasLine("ai_image", "Confidence: "))
              /\ (NonEmpty(Get(r, "manipulated"))
                     /\ Get(Get(r, "manipulated"), "confidence") = Undefined)
                    => (HasSection("manipulated")
                        /\ ~HasLine("manipulated", "Confidence: "))

\* a piece of a message text that states the HTTP status: the status itself
\* or the generic message made of it (no body of the model holds digits)
StatesStatus(piece, status) ==
    piece \in {ToString(status), "HTTP " \o ToString(status),
               "{\"error\":\"HTTP " \o ToString(status) \o "\"}"}

\* C37: for a response with a non-success status the appended Error message
\* contains the HTTP status, and with it the parsed body when the body is
\* JSON, or is the generic status message when the body cannot be parsed.
C37_ErrorStatesStatusAndBody ==
    [][\A r \in inflight : \A out \in Outcomes :
          (settle(r, out) /\ out.kind = "response" /\ ~ResponseOk(out.status))
              => LET m == Last(messages')
                 IN /\ m.type = "error"
                    /\ \E k \in 1..Len(m.text) : StatesStatus(m.text[k], out.status)
                    /\ out.body.json
                          => \E k \in 1..Len(m.text) : m.text[k] = Stringify(out.body.value)]_vars

\* the video keys of the payload that are present
PresentVideoKeys == {k \in VideoKeys : NonEmpty(Get(ResultsOf(messageData), k))}

\* C38: when more than one of results.video, results.video_analysis and
\* results.video_result is present, exactly one Video Analysis section is
\* emitted, and its lines are those of the first present in that order.
C38_FirstVideoKeyWins ==
    (Rendered /\ Cardinality(PresentVideoKeys) > 1)
        => LET first == Get(ResultsOf(messageData),
                            IF "video" \in PresentVideoKeys THEN "video"
                            ELSE "video_analysis")
           IN /\ Cardinality({i \in 1..Len(sections) : sections[i].key = "video"}) = 1
              /\ HasLine("video", "Verdict: ") <=> NonEmpty(Get(first, "overall_verdict"))
              /\ HasLine("video", "Overall: ") <=> NonEmpty(Get(first, "visual_detection"))
              /\ HasLine("video", "Audio Detection:")
                    <=> Get(first, "audio_detection").t = "array"

\* C38 witness: all three video keys were present, with a visual detection
\* under video, a verdict under video_analysis and an audio list under
\* video_result; the section shows the visual detection only.
C38_Witness ==
    /\ Rendered /\ PresentVideoKeys = VideoKeys
    /\ LinesOf("video") = <<<<"Visual Detection:">>,
                            <<"Overall: ", "fake", " (", "91.0", "%)">>>>

\* C39: a Fact Check section is emitted exactly when results.factcheck is
\* present and has at least one field of its own; results.factcheck = {}
\* emits none.
C39_FactcheckNeedsField ==
    Rendered
        => LET factcheck == Get(ResultsOf(messageData), "factcheck")
           IN /\ Cardinality({i \in 1..Len(sections) : sections[i].key = "factcheck"})
                    = IF factcheck.t = "object" /\ DOMAIN factcheck.v # {} THEN 1 ELSE 0
              /\ IsEmptyObject(factcheck)
                    => \A i \in 1..Len(sections) : sections[i].title # "Fact Check"

\* C39 witness: a payload holding results.factcheck = {} and a bias analysis
\* was rendered as the Bias section alone.
C39_Witness ==
    /\ Rendered
    /\ IsEmptyObject(Get(ResultsOf(messageData), "factcheck"))
    /\ Len(sections) = 1 /\ sections[1].key = "bias"

\* C40: a Summary section is emitted exactly when a non-empty summary is
\* present at the top level or under results; when both are present there is
\* one Summary section and it shows the text of results.summary.
C40_SummaryNestedFirst ==
    Rendered
        => LET top == Get(messageData, "summary")
               nested == Get(ResultsOf(messageData), "summary")
           IN /\ Cardinality({i \in 1..Len(sections) : sections[i].key = "summary"})
                    = IF NonEmpty(top) \/ NonEmpty(nested) THEN 1 ELSE 0
              /\ NonEmpty(nested) => LinesOf("summary") = <<<<nested.v>>>>
              /\ (NonEmpty(top) /\ ~NonEmpty(nested)) => LinesOf("summary") = <<<<top.v>>>>

\* C40 witness: a payload with the summary "top" at the top level and
\* "nested" under results was rendered as one section showing "nested".
C40_Witness ==
    /\ Rendered
    /\ Get(messageData, "summary") = JStr("top")
    /\ Get(ResultsOf(messageData), "summary") = JStr("nested")
    /\ sections = <<[key |-> "summary", title |-> "Summary", lines |-> <<<<"nested">>>>]>>

====
